---- MODULE Spec2Model ----
(***************************************************************************)
(* Model of src/transcribe.py: the segment line builder                    *)
(* (build_lines_from_segments) and the batch run of main() (worklist       *)
(* selection, sequential transcription, document assembly, output naming). *)
(*                                                                         *)
(* Strings are sequences of one-character strings, so that trimming,       *)
(* joining, parsing and formatting are computed character by character.    *)
(* Times are whole seconds.                                                *)
(***************************************************************************)
EXTENDS Integers, Sequences, FiniteSets

(***************************************************************************)
(* Bounds of the builder's inputs.                                         *)
(***************************************************************************)
MaxSegs == 3

MaxTime == 1

\* segment texts as the engine may deliver them: empty, whitespace only,
\* a word, a word with surrounding whitespace, two words
SegmentTexts ==
  { <<>>, <<" ">>, <<"a">>, <<" ", "b", " ">>, <<"c", " ", "d">> }

Times == 0 .. MaxTime

PauseThresholds == 0 .. (MaxTime + 1)

\* a segment of the engine's result: start, end (seconds) and text
Segments ==
  { [start |-> s, end |-> e, text |-> t] :
      s \in Times, e \in Times, t \in SegmentTexts }

(***************************************************************************)
(* String helpers (Python str methods used by the source).                 *)
(***************************************************************************)
IsSpace(c) == c = " " \/ c = "\n"

RECURSIVE lstrip(_)
lstrip(s) ==
  IF s # <<>> /\ IsSpace(Head(s)) THEN lstrip(Tail(s)) ELSE s

RECURSIVE rstrip(_)
rstrip(s) ==
  IF s # <<>> /\ IsSpace(s[Len(s)]) THEN rstrip(SubSeq(s, 1, Len(s) - 1)) ELSE s

\* str.strip()
strip(s) == rstrip(lstrip(s))

\* sep.join(parts)
RECURSIVE join(_, _)
join(sep, parts) ==
  IF parts = <<>> THEN <<>>
  ELSE IF Len(parts) = 1 THEN parts[1]
  ELSE parts[1] \o sep \o join(sep, Tail(parts))

(***************************************************************************)
(* build_lines_from_segments, lines 45-81.  The loop state is the record   *)
(* [lines, current_line, prev_end].                                        *)
(***************************************************************************)
\* lines 53-55: state before the loop, seeded from the first segment
SeedState(seg) ==
  [lines |-> <<>>, current_line |-> strip(seg.text), prev_end |-> seg.end]

\* lines 65-66 and 78-79: emit the current line when it is non-empty
FlushBlind(st) == Append(st.lines, strip(st.current_line))

Flush(st) ==
  IF strip(st.current_line) # <<>>
  THEN Append(st.lines, strip(st.current_line))
  ELSE st.lines

\* line 63: the pause test
IsPauseStrict(gap, pause_threshold) == gap > pause_threshold

IsPause(gap, pause_threshold) == gap >= pause_threshold

\* lines 70-74: continuation of the same line
ContinueAlways(current_line, text) ==
  IF current_line # <<>> THEN current_line \o <<" ">> \o text ELSE text

Continue(current_line, text) ==
  IF text # <<>>
  THEN IF current_line # <<>>
       THEN current_line \o <<" ">> \o text
       ELSE text
  ELSE current_line

\* lines 58-76: one iteration of the loop
LoopBodySkipSilent(st, seg, pause_threshold) ==
  LET text == strip(seg.text)
      gap  == seg.start - st.prev_end
  IN  IF IsPause(gap, pause_threshold) /\ text # <<>>
      THEN [lines |-> Flush(st), current_line |-> text, prev_end |-> seg.end]
      ELSE [lines |-> st.lines,
            current_line |-> Continue(st.current_line, text),
            prev_end |-> seg.end]

LoopBody(st, seg, pause_threshold) ==
  LET text == strip(seg.text)
      gap  == seg.start - st.prev_end
  IN  IF IsPause(gap, pause_threshold)
      THEN [lines |-> Flush(st), current_line |-> text, prev_end |-> seg.end]
      ELSE [lines |-> st.lines,
            current_line |-> Continue(st.current_line, text),
            prev_end |-> seg.end]

\* lines 57-76: the loop over segments[1:]
RECURSIVE Loop(_, _, _)
Loop(st, rest, pause_threshold) ==
  IF rest = <<>> THEN st
  ELSE Loop(LoopBody(st, Head(rest), pause_threshold), Tail(rest), pause_threshold)

\* lines 78-81: final flush and "\n".join(lines)
FinalLines(st) == Flush(st)

build_lines_from_segments(segs, pause_threshold) ==
  IF segs = <<>> THEN <<>>
  ELSE join(<<"\n">>,
            FinalLines(Loop(SeedState(Head(segs)), Tail(segs), pause_threshold)))

(***************************************************************************)
(* Characters, ordering and case (str.lower, string comparison).           *)
(***************************************************************************)
\* the characters of the modelled file names, in code point order
CodePoints ==
  << " ", "-", ".", "0", "1", "2", "3", "4", "5", "6", "7", "8", "9", "=",
     "B", "I", "K", "L", "M", "P", "_",
     "a", "b", "c", "d", "e", "h", "i", "k", "l", "m", "n", "o", "p", "r",
     "s", "t", "u", "v", "x" >>

ord(c) == CHOOSE k \in 1 .. Len(CodePoints) : CodePoints[k] = c

lower_char(c) ==
  CASE c = "B" -> "b" [] c = "I" -> "i" [] c = "K" -> "k" [] c = "L" -> "l"
    [] c = "M" -> "m" [] c = "P" -> "p" [] OTHER -> c

\* str.lower()
lower(s) == [k \in 1 .. Len(s) |-> lower_char(s[k])]

\* a <= b for strings (lexicographic by code point)
RECURSIVE str_le(_, _)
str_le(a, b) ==
  IF a = <<>> THEN TRUE
  ELSE IF b = <<>> THEN FALSE
  ELSE IF Head(a) = Head(b) THEN str_le(Tail(a), Tail(b))
  ELSE ord(Head(a)) < ord(Head(b))

(***************************************************************************)
(* Path.suffix, Path.stem, Path.with_suffix on a file name.                *)
(***************************************************************************)
\* position of the last "." that is not the first character, or 0
LastDot(name) ==
  LET dots == { k \in 2 .. Len(name) : name[k] = "." }
  IN  IF dots = {} THEN 0 ELSE CHOOSE k \in dots : \A j \in dots : j <= k

suffix(name) ==
  IF LastDot(name) = 0 THEN <<>> ELSE SubSeq(name, LastDot(name), Len(name))

stem(name) ==
  IF LastDot(name) = 0 THEN name ELSE SubSeq(name, 1, LastDot(name) - 1)

with_suffix(name, ext) == stem(name) \o ext

(***************************************************************************)
(* is_media_file, lines 11-27.                                             *)
(***************************************************************************)
VIDEO_EXTENSIONS ==
  { <<".", "m", "p", "4">>, <<".", "m", "k", "v">>, <<".", "a", "v", "i">>,
    <<".", "m", "o", "v">>, <<".", "f", "l", "v">>, <<".", "w", "m", "v">>,
    <<".", "m", "p", "g">>, <<".", "m", "p", "e", "g">>,
    <<".", "m", "4", "v">>, <<".", "w", "e", "b", "m">> }

\* an entry is [name, is_file]
is_media_file(entry) ==
  entry.is_file /\ lower(suffix(entry.name)) \in VIDEO_EXTENSIONS

(***************************************************************************)
(* sorted(..., key=lambda p: p.name.lower()), lines 181-184: stable.       *)
(***************************************************************************)
SortKeyRaw(name) == name

SortKey(name) == lower(name)

\* insert x after every element whose key is <= its own
RECURSIVE InsertSorted(_, _)
InsertSorted(x, sorted) ==
  IF sorted = <<>> THEN <<x>>
  ELSE IF str_le(SortKey(Head(sorted).name), SortKey(x.name))
       THEN <<Head(sorted)>> \o InsertSorted(x, Tail(sorted))
       ELSE <<x>> \o sorted

RECURSIVE sorted_by_name(_)
sorted_by_name(entries) ==
  IF entries = <<>> THEN <<>>
  ELSE InsertSorted(entries[Len(entries)],
                    sorted_by_name(SubSeq(entries, 1, Len(entries) - 1)))

\* [p for p in input_path.iterdir() if is_media_file(p)]
RECURSIVE media_only(_)
media_only(entries) ==
  IF entries = <<>> THEN <<>>
  ELSE IF is_media_file(Head(entries))
       THEN <<Head(entries)>> \o media_only(Tail(entries))
       ELSE media_only(Tail(entries))

(***************************************************************************)
(* Decimal digits.                                                         *)
(***************************************************************************)
DigitChars == <<"0", "1", "2", "3", "4", "5", "6", "7", "8", "9">>

IsDigit(c) == \E k \in 1 .. 10 : DigitChars[k] = c

DigitVal(c) == (CHOOSE k \in 1 .. 10 : DigitChars[k] = c) - 1

\* int(...) of a run of digits
RECURSIVE NumVal(_)
NumVal(ds) ==
  IF ds = <<>> THEN 0
  ELSE 10 * NumVal(SubSeq(ds, 1, Len(ds) - 1)) + DigitVal(ds[Len(ds)])

\* str(n), n >= 0
RECURSIVE Decimal(_)
Decimal(n) ==
  IF n < 10 THEN <<DigitChars[n + 1]>>
  ELSE Decimal(n \div 10) \o <<DigitChars[(n % 10) + 1]>>

\* zero padding to a minimum width: format spec 0<width>d
RECURSIVE ZeroPad(_, _)
ZeroPad(ds, width) ==
  IF Len(ds) >= width THEN ds ELSE ZeroPad(<<"0">> \o ds, width)

Pad(n, width) == ZeroPad(Decimal(n), width)

(***************************************************************************)
(* datetime: strptime, strftime and + timedelta(seconds=...).  A format is *)
(* a sequence of items, a directive [k |-> "Y".."S"] or a literal          *)
(* character [k |-> "lit", c |-> ...].  An optional datetime is <<>>       *)
(* (None) or <<dt>>.                                                       *)
(***************************************************************************)
Dir(k) == [k |-> k, c |-> ""]

Lit(c) == [k |-> "lit", c |-> c]

\* '%Y-%m-%d %H-%M-%S'
FmtSpace ==
  << Dir("Y"), Lit("-"), Dir("m"), Lit("-"), Dir("d"), Lit(" "),
     Dir("H"), Lit("-"), Dir("M"), Lit("-"), Dir("S") >>

\* '%Y-%m-%d_%H-%M-%S'
FmtUnderscore ==
  << Dir("Y"), Lit("-"), Dir("m"), Lit("-"), Dir("d"), Lit("_"),
     Dir("H"), Lit("-"), Dir("M"), Lit("-"), Dir("S") >>

IsLeap(y) == (y % 4 = 0 /\ y % 100 # 0) \/ y % 400 = 0

DaysInMonth(y, m) ==
  IF m = 2 THEN (IF IsLeap(y) THEN 29 ELSE 28)
  ELSE IF m \in {4, 6, 9, 11} THEN 30 ELSE 31

\* number of characters from pos on that satisfy ok, at most max
RECURSIVE RunLen(_, _, _, _)
RunLen(s, pos, max, isDigits) ==
  IF max = 0 \/ pos > Len(s) THEN 0
  ELSE IF (isDigits /\ IsDigit(s[pos])) \/ (~isDigits /\ IsSpace(s[pos]))
       THEN 1 + RunLen(s, pos + 1, max - 1, isDigits)
       ELSE 0

\* the values a directive accepts
FieldOK(k, v) ==
  CASE k = "Y" -> v >= 1
    [] k = "m" -> v \in 1 .. 12
    [] k = "d" -> v \in 1 .. 31
    [] k = "H" -> v \in 0 .. 23
    [] k = "M" -> v \in 0 .. 59
    [] k = "S" -> v \in 0 .. 59

\* %Y is exactly four digits, the other directives one or two
MinDigits(k) == IF k = "Y" THEN 4 ELSE 1

MaxDigits(k) == IF k = "Y" THEN 4 ELSE 2

RECURSIVE Match(_, _, _, _)
Match(s, pos, fmt, acc) ==
  IF fmt = <<>>
  THEN IF pos = Len(s) + 1 /\ acc.d <= DaysInMonth(acc.Y, acc.m)
       THEN <<acc>> ELSE <<>>
  ELSE LET it == Head(fmt)
       IN  IF it.k = "lit"
           THEN IF IsSpace(it.c)
                THEN \* white space in a format matches one or more
                     LET n == RunLen(s, pos, Len(s), FALSE)
                     IN  IF n = 0 THEN <<>>
                         ELSE Match(s, pos + n, Tail(fmt), acc)
                ELSE IF pos <= Len(s) /\ s[pos] = it.c
                     THEN Match(s, pos + 1, Tail(fmt), acc)
                     ELSE <<>>
           ELSE LET n == RunLen(s, pos, MaxDigits(it.k), TRUE)
                    v == NumVal(SubSeq(s, pos, pos + n - 1))
                IN  IF n < MinDigits(it.k) \/ ~FieldOK(it.k, v) THEN <<>>
                    ELSE Match(s, pos + n, Tail(fmt),
                               [acc EXCEPT ![it.k] = v])

\* datetime.strptime(s, fmt); <<>> stands for ValueError
strptime(s, fmt) ==
  Match(s, 1, fmt, [Y |-> 1900, m |-> 1, d |-> 1, H |-> 0, M |-> 0, S |-> 0])

RECURSIVE strftime(_, _)
strftime(dt, fmt) ==
  IF fmt = <<>> THEN <<>>
  ELSE LET it == Head(fmt)
       IN  (IF it.k = "lit" THEN <<it.c>>
            ELSE ZeroPad(Decimal(dt[it.k]), MaxDigits(it.k)))
           \o strftime(dt, Tail(fmt))

\* lines 30-42: the first accepted format that parses, else None
RECURSIVE try_formats(_, _)
try_formats(s, fmts) ==
  IF fmts = <<>> THEN <<>>
  ELSE IF strptime(s, Head(fmts)) # <<>> THEN strptime(s, Head(fmts))
  ELSE try_formats(s, Tail(fmts))

parse_datetime_from_stem(s) == try_formats(s, <<FmtSpace, FmtUnderscore>>)

NextDay(dt) ==
  IF dt.d < DaysInMonth(dt.Y, dt.m) THEN [dt EXCEPT !.d = dt.d + 1]
  ELSE IF dt.m < 12 THEN [dt EXCEPT !.d = 1, !.m = dt.m + 1]
  ELSE [dt EXCEPT !.d = 1, !.m = 1, !.Y = dt.Y + 1]

RECURSIVE AddDays(_, _)
AddDays(dt, n) == IF n = 0 THEN dt ELSE AddDays(NextDay(dt), n - 1)

\* dt + timedelta(seconds=secs), secs >= 0
AddSeconds(dt, secs) ==
  LET total == dt.H * 3600 + dt.M * 60 + dt.S + secs
      rem   == total % 86400
  IN  [AddDays(dt, total \div 86400) EXCEPT
         !.H = rem \div 3600, !.M = (rem % 3600) \div 60, !.S = rem % 60]

(***************************************************************************)
(* main(): document assembly and output naming, lines 235-266.             *)
(***************************************************************************)
\* line 235: f"\n\n===== PLIK: {file_path.name} =====\n\n"
Header(name) ==
  <<"\n", "\n", "=", "=", "=", "=", "=", " ", "P", "L", "I", "K", ":", " ">>
  \o name
  \o <<" ", "=", "=", "=", "=", "=", "\n", "\n">>

\* line 236: one element of all_text_parts
TextPart(name, text) == Header(name) \o strip(text)

\* line 238: "".join(all_text_parts).strip() + "\n"
FinalText(parts) == strip(join(<<>>, parts)) \o <<"\n">>

RECURSIVE Sum(_)
Sum(ds) == IF ds = <<>> THEN 0 ELSE Head(ds) + Sum(Tail(ds))

\* line 245: total_duration_sec
TotalDurationLast(durations) == durations[Len(durations)]

TotalDuration(durations) == Sum(durations)

\* line 254: last_start_dt + timedelta(seconds=durations_sec[-1])
EndStampTotal(last_start_dt, durations) == AddSeconds(last_start_dt, Sum(durations))

EndStamp(last_start_dt, durations) ==
  AddSeconds(last_start_dt, durations[Len(durations)])

\* lines 259-260: the format of both timestamps of the name
NameFormatUnderscore == FmtUnderscore

NameFormat == FmtSpace

\* "_medium.txt"
NameSuffix == <<"_", "m", "e", "d", "i", "u", "m", ".", "t", "x", "t">>

\* lines 242-264: the name of the batch document
batch_name(files, durations) ==
  LET first_stem    == stem(files[1].name)
      last_stem     == stem(files[Len(files)].name)
      total         == TotalDuration(durations)
      total_hours   == total \div 3600
      total_minutes == (total % 3600) \div 60
      start_dt      == parse_datetime_from_stem(first_stem)
      last_start_dt == parse_datetime_from_stem(last_stem)
      end_dt        == IF last_start_dt # <<>>
                       THEN <<EndStamp(last_start_dt[1], durations)>>
                       ELSE <<>>
  IN  IF start_dt # <<>> /\ end_dt # <<>>
      THEN strftime(start_dt[1], NameFormat) \o <<"_", "_">>
           \o strftime(end_dt[1], NameFormat) \o NameSuffix
      ELSE first_stem \o <<"_", "l", "e", "n", "_">>
           \o Pad(total_hours, 2) \o <<"h">>
           \o Pad(total_minutes, 2) \o <<"m">> \o NameSuffix

\* input_path / name
PathJoin(dir, name) == dir \o <<"/">> \o name

(***************************************************************************)
(* Inputs of a run of main().                                              *)
(***************************************************************************)
MaxEntries == 3

\* --pause-threshold default
DefaultPauseThreshold == 2

File(name) == [name |-> name, is_file |-> TRUE]

SubDir(name) == [name |-> name, is_file |-> FALSE]

\* "2025-11-26 16-44-59.mp4"
RecSpace ==
  File(strftime([Y |-> 2025, m |-> 11, d |-> 26, H |-> 16, M |-> 44, S |-> 59],
                FmtSpace) \o <<".", "m", "p", "4">>)

\* "2025-12-31_23-59-58.mkv"
RecUnderscore ==
  File(strftime([Y |-> 2025, m |-> 12, d |-> 31, H |-> 23, M |-> 59, S |-> 58],
                FmtUnderscore) \o <<".", "m", "k", "v">>)

Clip == File(<<"c", "l", "i", "p", "1", ".", "m", "p", "4">>)

Intro == File(<<"I", "n", "t", "r", "o", ".", "M", "P", "4">>)

Notes == File(<<"n", "o", "t", "e", "s", ".", "t", "x", "t">>)

OldDir == SubDir(<<"o", "l", "d", ".", "m", "p", "4">>)

DirEntries == {RecSpace, RecUnderscore, Clip, Intro, Notes, OldDir}

\* what iterdir() may yield: distinct entries in any order
Listings ==
  { l \in UNION { [1 .. n -> DirEntries] : n \in 0 .. MaxEntries } :
      \A i, j \in DOMAIN l : i # j => l[i] # l[j] }

DirName == <<"r", "e", "c">>

\* -o / --output: absent (None) or a path
OutputArgs == { <<>>, <<"o", "u", "t", ".", "t", "x", "t">> }

\* measured durations, whole seconds: 5 s and 99 h 59 min 59 s
Durations == {5, 359999}

Seg(s, e, t) == [start |-> s, end |-> e, text |-> t]

\* what the engine may return for a file: no segment at all, or three
\* segments with a long pause before the last
Transcripts ==
  { <<>>,
    << Seg(0, 1, <<" ", "a">>), Seg(1, 2, <<"b", " ">>), Seg(5, 6, <<"c">>) >> }

(***************************************************************************)
(* State.                                                                  *)
(*                                                                         *)
(* The builder is run one loop iteration per step; `segments` is the part  *)
(* of the input list consumed so far.  `placed` is a history variable:     *)
(* placed[i] is the number of the output line that receives the text of    *)
(* segments[i].                                                            *)
(*                                                                         *)
(* A run of main(): `pc` is the position in main, `engine_log` the history *)
(* of calls of transcribe_file (file, whether it returned, what it         *)
(* returned), `written` the history of write_text calls.                   *)
(***************************************************************************)
VARIABLES bpc, pause_threshold, segments, lines, current_line, prev_end,
          placed, result,
          pc, path_kind, input_path, listing, output_arg, error,
          files_to_process, is_directory_mode, model_loads, engine_log,
          all_text_parts, durations_sec, final_text, output_path, written

bvars == <<bpc, segments, lines, current_line, prev_end, placed, result>>

mvars == <<pc, path_kind, input_path, listing, output_arg, error,
           files_to_process, is_directory_mode, model_loads, engine_log,
           all_text_parts, durations_sec, final_text, output_path, written>>

vars == <<bvars, mvars, pause_threshold>>

\* no run of main
MainIdle ==
  /\ pc = "idle" /\ path_kind = "missing" /\ input_path = <<>>
  /\ listing = <<>> /\ output_arg = <<>> /\ error = "none"
  /\ files_to_process = <<>> /\ is_directory_mode = FALSE
  /\ model_loads = 0 /\ engine_log = <<>> /\ all_text_parts = <<>>
  /\ durations_sec = <<>> /\ final_text = <<>> /\ output_path = <<>>
  /\ written = <<>>

\* no stepwise run of the builder
BuilderIdle ==
  /\ bpc = "idle" /\ segments = <<>> /\ lines = <<>> /\ current_line = <<>>
  /\ prev_end = 0 /\ placed = <<>> /\ result = <<>>

BInit ==
  /\ bpc = "call"
  /\ pause_threshold \in PauseThresholds
  /\ segments = <<>>
  /\ lines = <<>>
  /\ current_line = <<>>
  /\ prev_end = 0
  /\ placed = <<>>
  /\ result = <<>>
  /\ MainIdle

\* segments arrive in non-decreasing start order, each with start <= end
NextSegments ==
  { seg \in Segments :
      /\ seg.start <= seg.end
      /\ segments # <<>> => segments[Len(segments)].start <= seg.start }

\* lines 50-51: empty input
BuildEmpty ==
  /\ bpc = "call"
  /\ bpc' = "done"
  /\ result' = build_lines_from_segments(<<>>, pause_threshold)
  /\ UNCHANGED <<pause_threshold, segments, lines, current_line, prev_end, placed>>
  /\ UNCHANGED mvars

\* lines 53-55: first segment
BuildFirst ==
  /\ bpc = "call"
  /\ \E seg \in NextSegments :
       LET st == SeedState(seg)
       IN  /\ segments' = <<seg>>
           /\ lines' = st.lines
           /\ current_line' = st.current_line
           /\ prev_end' = st.prev_end
           /\ placed' = <<Len(st.lines) + 1>>
  /\ bpc' = "loop"
  /\ UNCHANGED <<pause_threshold, result>>
  /\ UNCHANGED mvars

\* lines 57-76: one loop iteration
BuildNext ==
  /\ bpc = "loop"
  /\ Len(segments) < MaxSegs
  /\ \E seg \in NextSegments :
       LET st == LoopBody([lines |-> lines, current_line |-> current_line,
                           prev_end |-> prev_end], seg, pause_threshold)
       IN  /\ segments' = Append(segments, seg)
           /\ lines' = st.lines
           /\ current_line' = st.current_line
           /\ prev_end' = st.prev_end
           /\ placed' = Append(placed, Len(st.lines) + 1)
  /\ UNCHANGED <<bpc, pause_threshold, result>>
  /\ UNCHANGED mvars

\* lines 78-81: loop exhausted
BuildFinish ==
  /\ bpc = "loop"
  /\ bpc' = "done"
  /\ lines' = FinalLines([lines |-> lines, current_line |-> current_line,
                          prev_end |-> prev_end])
  /\ result' = join(<<"\n">>, lines')
  /\ UNCHANGED <<pause_threshold, segments, current_line, prev_end, placed>>
  /\ UNCHANGED mvars

BNext == BuildEmpty \/ BuildFirst \/ BuildNext \/ BuildFinish

SpecLines == BInit /\ [][BNext]_vars

(***************************************************************************)
(* main(), lines 169-269.                                                  *)
(***************************************************************************)
MInit ==
  /\ BuilderIdle
  /\ pause_threshold = DefaultPauseThreshold
  /\ pc = "start"
  /\ path_kind \in {"missing", "file", "dir", "other"}
  /\ output_arg \in OutputArgs
  /\ \/ /\ path_kind = "file"
        /\ input_path \in { e.name : e \in { x \in DirEntries : x.is_file } }
        /\ listing = <<>>
     \/ /\ path_kind = "dir"
        /\ input_path = DirName
        /\ listing \in Listings
     \/ /\ path_kind \in {"missing", "other"}
        /\ input_path = DirName
        /\ listing = <<>>
  /\ error = "none"
  /\ files_to_process = <<>>
  /\ is_directory_mode = FALSE
  /\ model_loads = 0
  /\ engine_log = <<>>
  /\ all_text_parts = <<>>
  /\ durations_sec = <<>>
  /\ final_text = <<>>
  /\ output_path = <<>>
  /\ written = <<>>

\* where an uncaught exception leaves the run
AfterRaiseResume(at) == at

AfterRaise(at) == "failed"

Raise(exc) ==
  /\ error' = exc
  /\ pc' = AfterRaise(pc)

\* lines 171-172
PathMissing ==
  /\ pc = "start"
  /\ path_kind = "missing"
  /\ Raise("FileNotFoundError")
  /\ UNCHANGED <<path_kind, input_path, listing, output_arg, files_to_process,
                 is_directory_mode, model_loads, engine_log, all_text_parts,
                 durations_sec, final_text, output_path, written>>
  /\ UNCHANGED <<bvars, pause_threshold>>

\* lines 175-179: a single file
SelectFile ==
  /\ pc = "start"
  /\ path_kind = "file"
  /\ IF is_media_file(File(input_path))
     THEN /\ files_to_process' = <<File(input_path)>>
          /\ is_directory_mode' = FALSE
          /\ pc' = "load"
          /\ UNCHANGED error
     ELSE /\ Raise("ValueError")
          /\ UNCHANGED <<files_to_process, is_directory_mode>>
  /\ UNCHANGED <<path_kind, input_path, listing, output_arg, model_loads,
                 engine_log, all_text_parts, durations_sec, final_text,
                 output_path, written>>
  /\ UNCHANGED <<bvars, pause_threshold>>

\* lines 180-187: a directory
SelectDir ==
  /\ pc = "start"
  /\ path_kind = "dir"
  /\ files_to_process' = sorted_by_name(media_only(listing))
  /\ is_directory_mode' = TRUE
  /\ IF files_to_process' = <<>>
     THEN Raise("ValueError")
     ELSE pc' = "load" /\ UNCHANGED error
  /\ UNCHANGED <<path_kind, input_path, listing, output_arg, model_loads,
                 engine_log, all_text_parts, durations_sec, final_text,
                 output_path, written>>
  /\ UNCHANGED <<bvars, pause_threshold>>

\* lines 188-189: neither file nor directory
SelectOther ==
  /\ pc = "start"
  /\ path_kind = "other"
  /\ Raise("ValueError")
  /\ UNCHANGED <<path_kind, input_path, listing, output_arg, files_to_process,
                 is_directory_mode, model_loads, engine_log, all_text_parts,
                 durations_sec, final_text, output_path, written>>
  /\ UNCHANGED <<bvars, pause_threshold>>

\* lines 192-218: the model is loaded, the preliminary output path chosen,
\* the accumulators emptied
LoadModel ==
  /\ pc = "load"
  /\ model_loads' = model_loads + 1
  /\ output_path' =
       IF output_arg # <<>> THEN output_arg
       ELSE IF is_directory_mode
            THEN PathJoin(input_path,
                          <<"t", "r", "a", "n", "s", "c", "r", "i", "p", "t",
                            "i", "o", "n", "_", "a", "l", "l", "_", "t", "m",
                            "p", ".", "t", "x", "t">>)
            ELSE with_suffix(input_path, <<".", "t", "x", "t">>)
  /\ all_text_parts' = <<>>
  /\ durations_sec' = <<>>
  /\ pc' = "loop"
  /\ UNCHANGED <<path_kind, input_path, listing, output_arg, error,
                 files_to_process, is_directory_mode, engine_log, final_text,
                 written>>
  /\ UNCHANGED <<bvars, pause_threshold>>

\* line 199: whisper.load_model raises
LoadModelFails ==
  /\ pc = "load"
  /\ Raise("EngineError")
  /\ UNCHANGED <<path_kind, input_path, listing, output_arg, files_to_process,
                 is_directory_mode, model_loads, engine_log, all_text_parts,
                 durations_sec, final_text, output_path, written>>
  /\ UNCHANGED <<bvars, pause_threshold>>

\* the file of the current loop iteration
CurrentFile == files_to_process[Len(durations_sec) + 1]

\* lines 220-236: one iteration, transcribe_file (lines 84-118) returns
Transcribe ==
  /\ pc = "loop"
  /\ Len(durations_sec) < Len(files_to_process)
  /\ \E segs \in Transcripts, duration_sec \in Durations :
       LET text == build_lines_from_segments(segs, pause_threshold)
       IN  /\ engine_log' = Append(engine_log,
                                   [file |-> CurrentFile, ok |-> TRUE,
                                    text |-> text, duration |-> duration_sec])
           /\ durations_sec' = Append(durations_sec, duration_sec)
           /\ all_text_parts' =
                Append(all_text_parts, TextPart(CurrentFile.name, text))
  /\ UNCHANGED <<pc, path_kind, input_path, listing, output_arg, error,
                 files_to_process, is_directory_mode, model_loads, final_text,
                 output_path, written>>
  /\ UNCHANGED <<bvars, pause_threshold>>

\* lines 96 and 105: load_audio or model.transcribe raises
TranscribeFails ==
  /\ pc = "loop"
  /\ Len(durations_sec) < Len(files_to_process)
  /\ engine_log' = Append(engine_log,
                          [file |-> CurrentFile, ok |-> FALSE,
                           text |-> <<>>, duration |-> 0])
  /\ Raise("EngineError")
  /\ UNCHANGED <<path_kind, input_path, listing, output_arg, files_to_process,
                 is_directory_mode, model_loads, all_text_parts, durations_sec,
                 final_text, output_path, written>>
  /\ UNCHANGED <<bvars, pause_threshold>>

\* lines 238-267: the loop is over; the document is assembled and named
Assemble ==
  /\ pc = "loop"
  /\ Len(durations_sec) = Len(files_to_process)
  /\ final_text' = FinalText(all_text_parts)
  /\ output_path' =
       IF is_directory_mode /\ output_arg = <<>>
       THEN PathJoin(input_path, batch_name(files_to_process, durations_sec))
       ELSE output_path
  /\ pc' = "write"
  /\ UNCHANGED <<path_kind, input_path, listing, output_arg, error,
                 files_to_process, is_directory_mode, model_loads, engine_log,
                 all_text_parts, durations_sec, written>>
  /\ UNCHANGED <<bvars, pause_threshold>>

\* line 269
WriteOutput ==
  /\ pc = "write"
  /\ written' = Append(written, [path |-> output_path, text |-> final_text])
  /\ pc' = "done"
  /\ UNCHANGED <<path_kind, input_path, listing, output_arg, error,
                 files_to_process, is_directory_mode, model_loads, engine_log,
                 all_text_parts, durations_sec, final_text, output_path>>
  /\ UNCHANGED <<bvars, pause_threshold>>

MNext ==
  \/ PathMissing \/ SelectFile \/ SelectDir \/ SelectOther
  \/ LoadModel \/ LoadModelFails
  \/ Transcribe \/ TranscribeFails
  \/ Assemble \/ WriteOutput

SpecMain == MInit /\ [][MNext]_vars

(***************************************************************************)
(* Vocabulary of the builder's claims, over the consumed input `segments`. *)
(***************************************************************************)
Done == bpc = "done"

\* gap before segment i (i >= 2): its start minus the previous segment's end
Gap(i) == segments[i].start - segments[i - 1].end

Trimmed(i) == strip(segments[i].text)

HasText(i) == Trimmed(i) # <<>>

\* trimmed texts of segments from..to, in order
AllTexts(from, to) == [k \in 1 .. (to - from + 1) |-> Trimmed(from + k - 1)]

RECURSIVE NonEmptyOf(_)
NonEmptyOf(texts) ==
  IF texts = <<>> THEN <<>>
  ELSE IF Head(texts) # <<>> THEN <<Head(texts)>> \o NonEmptyOf(Tail(texts))
  ELSE NonEmptyOf(Tail(texts))

\* non-empty trimmed texts of segments from..to joined by single spaces
SpaceJoined(from, to) == join(<<" ">>, NonEmptyOf(AllTexts(from, to)))

AllGapsBelow == \A i \in 2 .. Len(segments) : Gap(i) < pause_threshold

NoNewline(s) == \A k \in 1 .. Len(s) : s[k] # "\n"

\* the result cut at its newline characters
RECURSIVE SplitLines(_, _)
SplitLines(s, acc) ==
  IF s = <<>> THEN <<acc>>
  ELSE IF Head(s) = "\n" THEN <<acc>> \o SplitLines(Tail(s), <<>>)
  ELSE SplitLines(Tail(s), Append(acc, Head(s)))

\* the history variable agrees with the output: line n is made of exactly
\* the texts placed on it
PlacedAgrees ==
  Done =>
    /\ Len(placed) = Len(segments)
    /\ \A i \in 1 .. Len(segments) : HasText(i) => placed[i] \in 1 .. Len(lines)
    /\ \A n \in 1 .. Len(lines) :
         lines[n] =
           join(<<" ">>,
                NonEmptyOf([k \in 1 .. Len(segments) |->
                              IF placed[k] = n THEN Trimmed(k) ELSE <<>>]))

\* the one-call operator and the stepwise run compute the same string
StepwiseAgrees ==
  Done => result = build_lines_from_segments(segments, pause_threshold)

(***************************************************************************)
(* C1.  As stated: when every gap is strictly below the threshold the      *)
(* result is one line equal to the trimmed texts of ALL segments joined by *)
(* single spaces.                                                          *)
(***************************************************************************)
C1_Original ==
  (Done /\ AllGapsBelow) =>
    /\ NoNewline(result)
    /\ result = join(<<" ">>, AllTexts(1, Len(segments)))

\* C1 amended: when every gap is strictly below the threshold the result
\* contains no line break and equals the NON-EMPTY trimmed texts joined in
\* order by single spaces (the empty string when no segment has text).
C1_OneLine ==
  (Done /\ AllGapsBelow) =>
    /\ NoNewline(result)
    /\ result = SpaceJoined(1, Len(segments))

C1_Witness ==
  /\ Done /\ AllGapsBelow
  /\ Len(segments) = 3
  /\ HasText(1) /\ ~HasText(2) /\ HasText(3)
  /\ result = Trimmed(1) \o <<" ">> \o Trimmed(3)

(***************************************************************************)
(* C2.  As stated: a silent segment (empty trimmed text) whose DURATION    *)
(* end - start is at least the threshold, lying between two segments with  *)
(* text, puts those two texts on different lines.                          *)
(***************************************************************************)
C2_Original ==
  Done =>
    \A j, k, l \in 1 .. Len(segments) :
      ( /\ j < k /\ k < l
        /\ HasText(j) /\ ~HasText(k) /\ HasText(l)
        /\ segments[k].end - segments[k].start >= pause_threshold )
      => placed[j] # placed[l]

\* C2 amended: a silent segment whose GAP to the preceding segment (its
\* start minus the preceding segment's end) is at least the threshold,
\* lying between two segments with text, puts those two texts on different
\* lines of the result.
C2_SilentBreak ==
  Done =>
    \A j, k, l \in 1 .. Len(segments) :
      ( /\ j < k /\ k < l
        /\ HasText(j) /\ ~HasText(k) /\ HasText(l)
        /\ Gap(k) >= pause_threshold )
      => /\ placed[j] # placed[l]
         /\ Len(lines) >= 2

C2_Witness ==
  /\ Done
  /\ Len(segments) = 3
  /\ HasText(1) /\ ~HasText(2) /\ HasText(3)
  /\ Gap(2) >= pause_threshold
  /\ Gap(3) < pause_threshold
  /\ lines = <<Trimmed(1), Trimmed(3)>>

OnlyBreakAt(i) ==
  /\ i \in 2 .. Len(segments)
  /\ Gap(i) >= pause_threshold
  /\ \A j \in 2 .. Len(segments) : j # i => Gap(j) < pause_threshold
  /\ \E j \in 1 .. (i - 1) : HasText(j)
  /\ \E j \in i .. Len(segments) : HasText(j)

C10_NoBlankLine ==
  Done =>
    /\ result # <<>> =>
         \A n \in 1 .. Len(SplitLines(result, <<>>)) :
           strip(SplitLines(result, <<>>)[n]) # <<>>
    /\ result # <<>> => (Head(result) # "\n" /\ result[Len(result)] # "\n")
    /\ (\A i \in 1 .. Len(segments) : ~HasText(i)) => result = <<>>

C10_Witness ==
  /\ Done
  /\ Len(segments) = 3
  /\ \A i \in 1 .. 3 : ~HasText(i)
  /\ \E i \in 2 .. 3 : Gap(i) >= pause_threshold
  /\ \E i \in 1 .. 3 : segments[i].text # <<>>
  /\ result = <<>>

(***************************************************************************)
(* Vocabulary of the claims about main().                                  *)
(***************************************************************************)
Finished == pc = "done"

SingleRun == path_kind = "file"

\* a finished directory run without --output: the namer decided the name
BatchNamed == Finished /\ path_kind = "dir" /\ output_arg = <<>>

\* the name of the written file inside the input directory
WrittenName ==
  SubSeq(written[1].path, Len(input_path) + 2, Len(written[1].path))

FirstStem == stem(files_to_process[1].name)

LastStem == stem(files_to_process[Len(files_to_process)].name)

BothParse ==
  /\ parse_datetime_from_stem(FirstStem) # <<>>
  /\ parse_datetime_from_stem(LastStem) # <<>>

\* what the engine measured, from the call history
LoggedDurations == [i \in 1 .. Len(engine_log) |-> engine_log[i].duration]

LastLoggedDuration == engine_log[Len(engine_log)].duration

\* the accepted format a stem matched, in the parser's priority order
MatchedFormat(s) ==
  IF strptime(s, FmtSpace) # <<>> THEN FmtSpace ELSE FmtUnderscore

StartOf(s) == parse_datetime_from_stem(s)[1]

IsPrefix(a, b) == Len(a) <= Len(b) /\ SubSeq(b, 1, Len(a)) = a

(***************************************************************************)
(* C3.  Single-file mode: the document written is the trimmed text of the  *)
(* one outcome followed by one newline, with no header line.               *)
(***************************************************************************)
C3_SingleNoHeader ==
  (Finished /\ SingleRun) =>
    written[1].text = strip(engine_log[1].text) \o <<"\n">>

(***************************************************************************)
(* C4.  As stated: in the timestamp branch each timestamp of the name is   *)
(* formatted with the accepted format its stem matched.                    *)
(***************************************************************************)
C4_Original ==
  (BatchNamed /\ BothParse) =>
    WrittenName =
      strftime(StartOf(FirstStem), MatchedFormat(FirstStem)) \o <<"_", "_">>
      \o strftime(AddSeconds(StartOf(LastStem), LastLoggedDuration),
                  MatchedFormat(LastStem))
      \o NameSuffix

\* C4 amended: in the timestamp branch both timestamps of the name are
\* formatted as 'YYYY-MM-DD HH-MM-SS' (space-separated), whichever accepted
\* format the stems matched: read back with the space format they give the
\* start and the end, also when a stem was underscore-separated.
C4_SpaceFormat ==
  (BatchNamed /\ BothParse) =>
    /\ Len(WrittenName) = 19 + 2 + 19 + Len(NameSuffix)
    /\ WrittenName[11] = " " /\ WrittenName[32] = " "
    /\ strptime(SubSeq(WrittenName, 1, 19), FmtSpace) = <<StartOf(FirstStem)>>
    /\ strptime(SubSeq(WrittenName, 22, 40), FmtSpace) =
         <<AddSeconds(StartOf(LastStem), LastLoggedDuration)>>

C4_Witness ==
  /\ BatchNamed /\ BothParse
  /\ Len(files_to_process) = 2
  /\ strptime(FirstStem, FmtUnderscore) = <<>>
  /\ strptime(LastStem, FmtSpace) = <<>>
  /\ WrittenName[11] = " " /\ WrittenName[32] = " "

IsFallbackName(name) ==
  IsPrefix(FirstStem \o <<"_", "l", "e", "n", "_">>, name)

IsStampName(name) ==
  /\ Len(name) = 19 + 2 + 19 + Len(NameSuffix)
  /\ SubSeq(name, 20, 21) = <<"_", "_">>
  /\ SubSeq(name, 41, Len(name)) = NameSuffix
  /\ strptime(SubSeq(name, 1, 19), FmtSpace) # <<>>
  /\ strptime(SubSeq(name, 22, 40), FmtSpace) # <<>>

(***************************************************************************)
(* C5.  Branch selection: the timestamp name is produced exactly when the  *)
(* first and the last stem both parse; then start is the first stem's      *)
(* timestamp and end the last stem's timestamp plus the last file's        *)
(* duration alone; otherwise the fallback name is produced.                *)
(***************************************************************************)
C5_BranchSelection ==
  BatchNamed =>
    /\ IsStampName(WrittenName) <=> BothParse
    /\ IsFallbackName(WrittenName) <=> ~BothParse
    /\ BothParse =>
         /\ strptime(SubSeq(WrittenName, 1, 19), FmtSpace) = <<StartOf(FirstStem)>>
         /\ strptime(SubSeq(WrittenName, 22, 40), FmtSpace) =
              <<AddSeconds(StartOf(LastStem), LastLoggedDuration)>>

C5_Witness ==
  /\ BatchNamed /\ BothParse
  /\ Len(files_to_process) = 2
  /\ engine_log[1].duration = 359999 /\ engine_log[2].duration = 5
  /\ IsStampName(WrittenName)
  /\ StartOf(LastStem).Y = 2025
  /\ strptime(SubSeq(WrittenName, 22, 40), FmtSpace)[1].Y = 2026

FatalInput ==
  \/ path_kind \in {"missing", "other"}
  \/ path_kind = "file" /\ ~is_media_file(File(input_path))
  \/ path_kind = "dir" /\ \A i \in 1 .. Len(listing) : ~is_media_file(listing[i])

(***************************************************************************)
(* C6.  A fatal error leaves no output file: once an error is raised       *)
(* nothing is written and no further engine call is made; a bad path, an   *)
(* unrecognised single file or a directory without media fails before any  *)
(* engine call; the one write happens only after every worklist file was   *)
(* transcribed successfully.                                               *)
(***************************************************************************)
C6_NoPartialOutput ==
  /\ error # "none" => (written = <<>> /\ pc = "failed")
  /\ \A i \in 1 .. Len(engine_log) : ~engine_log[i].ok => i = Len(engine_log)
  /\ (FatalInput /\ pc # "start") =>
       (error # "none" /\ engine_log = <<>> /\ model_loads = 0)
  /\ written # <<>> =>
       /\ Len(written) = 1
       /\ error = "none"
       /\ files_to_process # <<>>
       /\ Len(engine_log) = Len(files_to_process)
       /\ \A i \in 1 .. Len(engine_log) :
            engine_log[i].ok /\ engine_log[i].file = files_to_process[i]

C6_Witness ==
  /\ error = "EngineError"
  /\ Len(files_to_process) = 3
  /\ Len(engine_log) = 2
  /\ engine_log[1].ok /\ ~engine_log[2].ok
  /\ written = <<>>

MediaOf(l) == { l[i] : i \in { j \in 1 .. Len(l) : is_media_file(l[j]) } }

Returned == { i \in 1 .. Len(engine_log) : engine_log[i].ok }

(***************************************************************************)
(* C7.  Orchestration order: the engine is loaded once, before the first   *)
(* transcription; the engine is called once per worklist file, in worklist *)
(* order (directory entries by case-insensitive name ascending); after k   *)
(* successful calls the accumulated parts and durations have exactly k     *)
(* entries, the i-th belonging to the i-th worklist file, empty texts      *)
(* included.                                                               *)
(***************************************************************************)
C7_Orchestration ==
  /\ model_loads <= 1
  /\ engine_log # <<>> => model_loads = 1
  /\ Len(engine_log) <= Len(files_to_process)
  /\ \A i \in 1 .. Len(engine_log) : engine_log[i].file = files_to_process[i]
  /\ Len(all_text_parts) = Cardinality(Returned)
  /\ Len(durations_sec) = Cardinality(Returned)
  /\ \A i \in Returned :
       /\ durations_sec[i] = engine_log[i].duration
       /\ all_text_parts[i] =
            Header(files_to_process[i].name) \o strip(engine_log[i].text)
  /\ (path_kind = "dir" /\ pc # "start") =>
       /\ { files_to_process[i] : i \in 1 .. Len(files_to_process) } = MediaOf(listing)
       /\ Len(files_to_process) = Cardinality(MediaOf(listing))
       /\ \A i, j \in 1 .. Len(files_to_process) :
            i < j => str_le(lower(files_to_process[i].name),
                            lower(files_to_process[j].name))
  /\ Finished => Len(durations_sec) = Len(files_to_process)

C7_Witness ==
  /\ Finished
  /\ path_kind = "dir"
  /\ Len(files_to_process) = 3
  /\ files_to_process[2] = Clip /\ files_to_process[3] = Intro
  /\ listing[1] = Intro
  /\ engine_log[2].text = <<>> /\ engine_log[3].text # <<>>
  /\ Len(all_text_parts) = 3

\* the part of a fallback name between '_len_' and the suffix: <HH>h<MM>m
LenPart(name) ==
  SubSeq(name, Len(FirstStem) + 6, Len(name) - Len(NameSuffix))

HPos(part) == CHOOSE k \in 1 .. Len(part) : part[k] = "h"

HHDigits(part) == SubSeq(part, 1, HPos(part) - 1)

MMDigits(part) == SubSeq(part, HPos(part) + 1, Len(part) - 1)

AllDigits(ds) == \A k \in 1 .. Len(ds) : IsDigit(ds[k])

(***************************************************************************)
(* C8.  Fallback name: '<first stem>_len_<HH>h<MM>m_<suffix>' with T the   *)
(* sum of the durations of every file, HH = floor(T / 3600) and            *)
(* MM = floor((T mod 3600) / 60); so 0 <= MM <= 59 and                     *)
(* HH*3600 + MM*60 <= T < HH*3600 + (MM+1)*60; each at least two digits.   *)
(***************************************************************************)
C8_FallbackName ==
  (BatchNamed /\ ~BothParse) =>
    LET T    == Sum(LoggedDurations)
        part == LenPart(WrittenName)
        HH   == NumVal(HHDigits(part))
        MM   == NumVal(MMDigits(part))
    IN  /\ IsPrefix(FirstStem \o <<"_", "l", "e", "n", "_">>, WrittenName)
        /\ SubSeq(WrittenName, Len(WrittenName) - Len(NameSuffix) + 1,
                  Len(WrittenName)) = NameSuffix
        /\ \E k \in 1 .. Len(part) : part[k] = "h"
        /\ part[Len(part)] = "m"
        /\ AllDigits(HHDigits(part)) /\ Len(HHDigits(part)) >= 2
        /\ AllDigits(MMDigits(part)) /\ Len(MMDigits(part)) >= 2
        /\ HH = T \div 3600
        /\ MM = (T % 3600) \div 60
        /\ 0 <= MM /\ MM <= 59
        /\ HH * 3600 + MM * 60 <= T
        /\ T < HH * 3600 + (MM + 1) * 60

C8_Witness ==
  /\ BatchNamed /\ ~BothParse
  /\ Len(files_to_process) = 2
  /\ engine_log[1].duration = 359999 /\ engine_log[2].duration = 5
  /\ HHDigits(LenPart(WrittenName)) = <<"1", "0", "0">>
  /\ MMDigits(LenPart(WrittenName)) = <<"0", "0">>

====
